---- MODULE Spec2Model ----
(***************************************************************************)
(* Sales commission factor table (model sales.commission.factor) and its   *)
(* lookup get_commission_factor.                                           *)
(*                                                                         *)
(* Units.  A markup percentage handed to the lookup is a real number; it   *)
(* is carried here in tenths of a percent (146 is 14.6).  A tie of the     *)
(* rounding (x.5) is exactly representable in binary floating point, and   *)
(* no other tenth is close enough to a tie for the float error to matter,  *)
(* so rounding on tenths is rounding on the floats the code sees.          *)
(* A commission factor is a Float with digits=(16, 6); it is carried in    *)
(* millionths (4000 is 0.004).                                             *)
(*                                                                         *)
(* Sale order lines and the sale order.  Prices, costs and quantities are  *)
(* whole numbers; a line's commission amount is in millionths of the       *)
(* currency unit.  A quotient the code computes in floating point is       *)
(* carried as the exact fraction: the weighted average factor and the      *)
(* total commission are fractions in lowest terms.  A markup percentage    *)
(* is round() of such a quotient; where the exact quotient is a tie the    *)
(* float may sit on the tie or on either side of it, so both neighbours    *)
(* are outcomes; anywhere else the float error is far too small to move    *)
(* the result.  The rounding the host applies when it stores a Float or    *)
(* Monetary field is not part of this code and is left out.                *)
(***************************************************************************)
EXTENDS Integers, Sequences, FiniteSets, TLC

VARIABLES
    factors,    \* the sales.commission.factor table: record id -> stored fields
    last,       \* the last call made on the model and what it gave
    lines,      \* the sale.order.line records, in order of creation
    order,      \* the stored summary fields of sale order 1
    state,      \* the state of each sale order: order id -> state
    wizard,     \* the vm.configurator.wizard record
    order_line, \* the lines of the quotation the wizard works on
    products,   \* the names of the product.product records that exist
    env,        \* what load_menus reads: company, parameters, xml ids, host menus
    menus       \* what load_menus returned

vars == <<factors, last, lines, order, state, wizard, order_line, products,
          env, menus>>

saleVars == <<lines, order, state>>

wizardVars == <<wizard, order_line, products>>

menuVars == <<env, menus>>

(***************************************************************************)
(* Bounds and inputs.                                                      *)
(***************************************************************************)
MaxEntries == 2

MaxLines == 2

MaxBlocks == 3

FactorUnit == 1000000

\* markup_percentage values offered to create / write (whole percents)
PctInputs == {-1, 0, 15, 1000, 1001}

\* commission_factor values offered to create / write (millionths)
FactorInputs == {-1, 0, 4000, FactorUnit, FactorUnit + 1}

\* markup percentages offered to get_commission_factor (tenths of a percent)
LookupInputs == {-15, -5, 4, 5, 144, 145, 146, 150, 155, 9995, 10005, 10015}

NoVals == [k \in {} |-> 0]

\* vals of a create: both required fields, active left to its default
CreateVals ==
    {[markup_percentage |-> p, commission_factor |-> f] :
        p \in PctInputs, f \in FactorInputs}

\* vals of a write: edit the percentage, edit the factor, (de)activate
WriteVals ==
    {[markup_percentage |-> p] : p \in PctInputs}
    \cup {[commission_factor |-> f] : f \in FactorInputs}
    \cup {[active |-> b] : b \in BOOLEAN}

(***************************************************************************)
(* Field defaults and the constraints of the model.                        *)
(***************************************************************************)
\* active = fields.Boolean(default=True)
Defaults == [active |-> TRUE]

\* the stored record that vals give on top of rec
Merged(rec, vals) ==
    [k \in (DOMAIN rec) \cup (DOMAIN vals) |->
        IF k \in DOMAIN vals THEN vals[k] ELSE rec[k]]

\* faulty variant of _check_markup_percentage: 1000 itself refused
CheckMarkupPercentageOpenUpper(table, ids) ==
    \A i \in ids :
        /\ ~(table[i].markup_percentage < 0)
        /\ ~(table[i].markup_percentage >= 1000)

\* _check_markup_percentage: TRUE when no record of ids makes it raise
CheckMarkupPercentage(table, ids) ==
    \A i \in ids :
        /\ ~(table[i].markup_percentage < 0)
        /\ ~(table[i].markup_percentage > 1000)

\* _check_commission_factor: TRUE when no record of ids makes it raise
CheckCommissionFactor(table, ids) ==
    \A i \in ids :
        /\ ~(table[i].commission_factor < 0)
        /\ ~(table[i].commission_factor > 1 * FactorUnit)

\* faulty variant of _check_unique_markup_percentage: inactive records count too
CheckUniqueAmongAll(table, ids) ==
    \A i \in ids :
        LET existing == {j \in DOMAIN table :
                            /\ table[j].markup_percentage = table[i].markup_percentage
                            /\ j # i}
        IN  existing = {}

\* _check_unique_markup_percentage: TRUE when no record of ids makes it raise
CheckUniqueMarkupPercentage(table, ids) ==
    \A i \in ids :
        LET existing == {j \in DOMAIN table :
                            /\ table[j].markup_percentage = table[i].markup_percentage
                            /\ j # i
                            /\ table[j].active = TRUE}
        IN  existing = {}

\* The constraint methods run for the fields a create or write names:
\* @api.constrains("markup_percentage") twice, @api.constrains("commission_factor").
ValidateFields(table, ids, fnames) ==
    /\ "markup_percentage" \in fnames =>
            /\ CheckMarkupPercentage(table, ids)
            /\ CheckUniqueMarkupPercentage(table, ids)
    /\ "commission_factor" \in fnames => CheckCommissionFactor(table, ids)

Outcome(op, id, vals, raised) ==
    [op |-> op, id |-> id, vals |-> vals, arg |-> 0, rounded |-> 0,
     raised |-> raised, value |-> 0]

(***************************************************************************)
(* Administrative operations.                                              *)
(***************************************************************************)
\* create(vals): the record is stored unless a constraint raises
Create(vals) ==
    /\ Len(factors) < MaxEntries
    /\ LET id  == Len(factors) + 1
           new == Append(factors, Merged(Defaults, vals))
           fnames == (DOMAIN vals) \cup (DOMAIN Defaults)
       IN  IF ValidateFields(new, {id}, fnames)
           THEN /\ factors' = new
                /\ last' = Outcome("create", id, vals, "none")
           ELSE /\ factors' = factors
                /\ last' = Outcome("create", id, vals, "ValidationError")

\* record.write(vals): the fields are stored unless a constraint raises
Write(id, vals) ==
    /\ id \in DOMAIN factors
    /\ LET new == [factors EXCEPT ![id] = Merged(factors[id], vals)]
       IN  IF ValidateFields(new, {id}, DOMAIN vals)
           THEN /\ factors' = new
                /\ last' = Outcome("write", id, vals, "none")
           ELSE /\ factors' = factors
                /\ last' = Outcome("write", id, vals, "ValidationError")

(***************************************************************************)
(* get_commission_factor.                                                  *)
(***************************************************************************)
\* faulty variants of the rounding: a tie always upwards; the fraction dropped
RoundHalfUp(markup_percentage) ==
    LET q == markup_percentage \div 10
        r == markup_percentage % 10
    IN  IF r < 5 THEN q ELSE q + 1

RoundDown(markup_percentage) == markup_percentage \div 10

\* round(markup_percentage) of Python 3: nearest integer, a tie to the even one
PyRound(markup_percentage) ==
    LET q == markup_percentage \div 10
        r == markup_percentage % 10
    IN  IF r < 5 THEN q
        ELSE IF r > 5 THEN q + 1
        ELSE IF q % 2 = 0 THEN q ELSE q + 1

RECURSIVE OrderBy(_, _)
\* the orderings of ids by ascending markup_percentage (equal keys in any order)
OrderBy(table, ids) ==
    IF ids = {} THEN {<<>>}
    ELSE LET firsts == {i \in ids :
                          \A j \in ids :
                            table[i].markup_percentage <= table[j].markup_percentage}
         IN  UNION {{<<i>> \o s : s \in OrderBy(table, ids \ {i})} : i \in firsts}

\* faulty variants of the search: records in creation order; inactive ones kept
SearchUnordered(table) ==
    LET ids == {i \in DOMAIN table : table[i].active = TRUE}
        InIds(i) == i \in ids
    IN  {SelectSeq([i \in DOMAIN table |-> i], InIds)}

SearchInactiveToo(table) == OrderBy(table, DOMAIN table)

\* self.search([("active", "=", True)], order="markup_percentage ASC"):
\* the recordsets the search may return
Search(table) ==
    OrderBy(table, {i \in DOMAIN table : table[i].active = TRUE})

\* faulty variant of the exact-match filter: >= in place of ==
ExactMatchAtLeast(table, all_factors, rounded_markup) ==
    LET Test(i) == table[i].markup_percentage >= rounded_markup
    IN  SelectSeq(all_factors, Test)

\* all_factors.filtered(lambda f: f.markup_percentage == rounded_markup)
ExactMatch(table, all_factors, rounded_markup) ==
    LET Test(i) == table[i].markup_percentage = rounded_markup
    IN  SelectSeq(all_factors, Test)

\* faulty variant of the in-range result: the factor of the nearest entry below
WithinRangeNearestBelow(table, all_factors, rounded_markup) ==
    LET Test(i) == table[i].markup_percentage < rounded_markup
        below == SelectSeq(all_factors, Test)
    IN  table[below[Len(below)]].commission_factor

\* what is returned for a markup inside the configured range with no exact entry
WithinRange(table, all_factors, rounded_markup) == 0

Returned(rounded_markup, value) ==
    [rounded |-> rounded_markup, raised |-> "none", value |-> value]

\* the body of get_commission_factor once the search has returned all_factors
Resolve(table, all_factors, markup_percentage) ==
    LET rounded_markup == PyRound(markup_percentage)
        exact_match == ExactMatch(table, all_factors, rounded_markup)
        min_factor_record == all_factors[1]
        max_factor_record == all_factors[Len(all_factors)]
    IN  IF all_factors = <<>> THEN Returned(rounded_markup, 0)
        ELSE IF exact_match # <<>>
        THEN \* reading a field of a recordset of several records raises
             IF Len(exact_match) = 1
             THEN Returned(rounded_markup, table[exact_match[1]].commission_factor)
             ELSE [rounded |-> rounded_markup, raised |-> "ValueError", value |-> 0]
        ELSE IF rounded_markup < table[min_factor_record].markup_percentage
        THEN Returned(rounded_markup, table[min_factor_record].commission_factor)
        ELSE IF rounded_markup > table[max_factor_record].markup_percentage
        THEN Returned(rounded_markup, table[max_factor_record].commission_factor)
        ELSE Returned(rounded_markup, WithinRange(table, all_factors, rounded_markup))

\* the outcomes get_commission_factor(markup_percentage) can have on table
GetCommissionFactor(table, markup_percentage) ==
    {Resolve(table, all_factors, markup_percentage) : all_factors \in Search(table)}

Lookup(markup_percentage) ==
    /\ \E r \in GetCommissionFactor(factors, markup_percentage) :
          last' = [op |-> "get_commission_factor", id |-> 0, vals |-> NoVals,
                   arg |-> markup_percentage, rounded |-> r.rounded,
                   raised |-> r.raised, value |-> r.value]
    /\ UNCHANGED factors

(***************************************************************************)
(* Sale order lines: inputs of the order specification.                    *)
(***************************************************************************)
\* price_unit, purchase_price (0 when absent) and product_uom_qty offered
PriceInputs == {0, 100, 300}

\* the sale orders: order 1, whose totals are followed, and one other
OrderIds == {1, 2}

\* sale.order states: quotation, quotation sent, sales order, cancelled
OrderStates == {"draft", "sent", "sale", "cancel"}

CostInputs == {0, 80, 299}

QtyInputs == {0, 2, -1}

FactorEntry(pct, f, a) ==
    [markup_percentage |-> pct, commission_factor |-> f, active |-> a]

\* factor tables the administrative operations reach: empty; two entries
\* created largest first; an entry for 0% beside an inactive one; and two
\* active entries with one percentage (create, deactivate, create, reactivate)
OrderTables ==
    { <<>>,
      <<FactorEntry(67, 4000, TRUE), FactorEntry(20, 10000, TRUE)>>,
      <<FactorEntry(0, 4000, TRUE), FactorEntry(20, 10000, FALSE)>>,
      <<FactorEntry(20, 4000, TRUE), FactorEntry(20, 10000, TRUE)>> }

(***************************************************************************)
(* Arithmetic helpers.                                                     *)
(***************************************************************************)
Abs(x) == IF x < 0 THEN -x ELSE x

RECURSIVE GCD(_, _)
GCD(a, b) == IF b = 0 THEN a ELSE GCD(b, a % b)

\* the fraction n / d (d # 0) in lowest terms with a positive denominator
Fraction(n, d) ==
    LET g == GCD(Abs(n), Abs(d))
        sgn == IF d < 0 THEN -1 ELSE 1
    IN  [num |-> (sgn * n) \div g, den |-> (sgn * d) \div g]

Zero == [num |-> 0, den |-> 1]

RECURSIVE Sum(_)
Sum(s) == IF Len(s) = 0 THEN 0 ELSE s[1] + Sum(Tail(s))

\* round(num / den) for den # 0: the nearest integer; on an exact tie the even
\* neighbour when the float is the tie, the other one when it falls beside it
RoundQuotient(num, den) ==
    LET n == IF den < 0 THEN -num ELSE num
        d == Abs(den)
        q == n \div d
        r == n % d
    IN  IF 2 * r < d THEN {q}
        ELSE IF 2 * r > d THEN {q + 1}
        ELSE {q, q + 1}

(***************************************************************************)
(* Computed fields of sale.order.line.                                     *)
(***************************************************************************)
\* price_subtotal, computed by the sale module: price_unit * quantity
PriceSubtotal(line) == line.price_unit * line.product_uom_qty

\* faulty variant of _compute_markup_percentage: the markup taken on the cost
MarkupPercentageOnCost(line) ==
    IF line.price_unit # 0 /\ line.purchase_price # 0
    THEN RoundQuotient(100 * (line.price_unit - line.purchase_price),
                       line.purchase_price)
    ELSE {0}

\* faulty variant of _compute_markup_percentage: the final negation left out
MarkupPercentageSignLost(line) ==
    IF line.price_unit # 0 /\ line.purchase_price # 0
    THEN RoundQuotient(100 * (line.purchase_price - line.price_unit),
                       line.price_unit)
    ELSE {0}

\* _compute_markup_percentage: the values it may store.
\* ((purchase_price / price_unit) - 1) * -100
\*     = 100 * (price_unit - purchase_price) / price_unit
ComputeMarkupPercentage(line) ==
    IF line.price_unit # 0 /\ line.purchase_price # 0
    THEN RoundQuotient(100 * (line.price_unit - line.purchase_price),
                       line.price_unit)
    ELSE {0}

\* faulty variant of _compute_markup_amount: no guard on the cost
MarkupAmountUnguarded(line) == line.price_unit - line.purchase_price

\* _compute_markup_amount
ComputeMarkupAmount(line) ==
    IF line.price_unit # 0 /\ line.purchase_price # 0
    THEN line.price_unit - line.purchase_price
    ELSE 0

\* faulty variant of _compute_commission_factor: the lookup made for 0% too
CommissionFactorAlwaysLooked(line, table) ==
    {[raised |-> r.raised, value |-> r.value] :
        r \in GetCommissionFactor(table, 10 * line.markup_percentage)}

\* faulty variant of _compute_commission_factor: a negative markup forced to 0
CommissionFactorOnlyAboveZero(line, table) ==
    IF line.markup_percentage > 0
    THEN {[raised |-> r.raised, value |-> r.value] :
            r \in GetCommissionFactor(table, 10 * line.markup_percentage)}
    ELSE {[raised |-> "none", value |-> 0]}

\* _compute_commission_factor: what the lookup may give for the line
ComputeCommissionFactor(line, table) ==
    IF line.markup_percentage # 0
    THEN {[raised |-> r.raised, value |-> r.value] :
            r \in GetCommissionFactor(table, 10 * line.markup_percentage)}
    ELSE {[raised |-> "none", value |-> 0]}

\* faulty variant of _compute_commission_amount: taken on the unit price
CommissionAmountOnUnitPrice(line) ==
    IF line.price_subtotal # 0 /\ line.commission_factor # 0
    THEN line.price_unit * line.commission_factor
    ELSE 0

\* _compute_commission_amount
ComputeCommissionAmount(line) ==
    IF line.price_subtotal # 0 /\ line.commission_factor # 0
    THEN line.price_subtotal * line.commission_factor
    ELSE 0

\* faulty variant of the line's dependencies: commission_factor follows the
\* entries of the factor table as well
LineDependsOnTable ==
    [price_subtotal |-> {"product_uom_qty", "price_unit"},
     markup_percentage |-> {"purchase_price", "price_unit"},
     markup_amount |-> {"purchase_price", "price_unit"},
     commission_factor |-> {"markup_percentage",
                            "sales.commission.factor.markup_percentage",
                            "sales.commission.factor.commission_factor",
                            "sales.commission.factor.active"},
     commission_amount |-> {"price_subtotal", "commission_factor"},
     can_edit_product_vendor |-> {"order_id.state"}]

\* faulty variant of the line's dependencies: can_edit_product_vendor follows
\* the order the line is attached to, not that order's state
LineDependsWithoutState ==
    [price_subtotal |-> {"product_uom_qty", "price_unit"},
     markup_percentage |-> {"purchase_price", "price_unit"},
     markup_amount |-> {"purchase_price", "price_unit"},
     commission_factor |-> {"markup_percentage"},
     commission_amount |-> {"price_subtotal", "commission_factor"},
     can_edit_product_vendor |-> {"order_id"}]

\* The fields each computed field of sale.order.line is declared to depend
\* on (price_subtotal is the sale module's)
LineDepends ==
    [price_subtotal |-> {"product_uom_qty", "price_unit"},
     markup_percentage |-> {"purchase_price", "price_unit"},
     markup_amount |-> {"purchase_price", "price_unit"},
     commission_factor |-> {"markup_percentage"},
     commission_amount |-> {"price_subtotal", "commission_factor"},
     can_edit_product_vendor |-> {"order_id.state"}]

\* the modified fields together with every computed field that depends on
\* one of them, directly or through other computed fields
RECURSIVE Triggered(_, _)
Triggered(depends, modified) ==
    LET more == {f \in DOMAIN depends : depends[f] \cap modified # {}}
    IN  IF more \subseteq modified
        THEN modified
        ELSE Triggered(depends, modified \cup more)

\* The recomputation a create or write of a line triggers.  names are the
\* fields written; a computed field is recomputed when a field it depends on,
\* directly or through other computed fields, is among them.  Gives the lines
\* that may result, or a raised error when the lookup raises.
RecomputeLine(line, table, names) ==
    LET todo == Triggered(LineDepends, names)
        l1 == IF "price_subtotal" \in todo
              THEN [line EXCEPT !.price_subtotal = PriceSubtotal(line)]
              ELSE line
        l2 == IF "markup_amount" \in todo
              THEN [l1 EXCEPT !.markup_amount = ComputeMarkupAmount(l1)]
              ELSE l1
        marked == IF "markup_percentage" \in todo
                  THEN {[l2 EXCEPT !.markup_percentage = m] :
                            m \in ComputeMarkupPercentage(l2)}
                  ELSE {l2}
        Factored(l) ==
            IF "commission_factor" \in todo
            THEN {[raised |-> r.raised,
                   line |-> [l EXCEPT !.commission_factor = r.value]] :
                      r \in ComputeCommissionFactor(l, table)}
            ELSE {[raised |-> "none", line |-> l]}
    IN  {[raised |-> o.raised,
          line |-> IF "commission_amount" \in todo
                   THEN [o.line EXCEPT
                            !.commission_amount = ComputeCommissionAmount(o.line)]
                   ELSE o.line] :
            o \in UNION {Factored(l) : l \in marked}}

(***************************************************************************)
(* Computed fields of sale.order.                                          *)
(***************************************************************************)
\* amount_untaxed, computed by the sale module: the sum of the subtotals
AmountUntaxed(ls) == Sum([i \in DOMAIN ls |-> ls[i].price_subtotal])

\* faulty variant of _compute_total_cost_amount: the quantity left out
TotalCostWithoutQuantity(ls) ==
    Sum([i \in DOMAIN ls |->
            IF ls[i].purchase_price # 0 /\ ls[i].product_uom_qty # 0
            THEN ls[i].purchase_price
            ELSE 0])

\* _compute_total_cost_amount
ComputeTotalCostAmount(ls) ==
    Sum([i \in DOMAIN ls |->
            IF ls[i].purchase_price # 0 /\ ls[i].product_uom_qty # 0
            THEN ls[i].purchase_price * ls[i].product_uom_qty
            ELSE 0])

\* _compute_total_markup_amount
ComputeTotalMarkupAmount(amount_untaxed, total_cost_amount) ==
    amount_untaxed - total_cost_amount

\* faulty variant of _compute_total_markup_percentage: the divisor is the cost
TotalMarkupPercentageOnCost(amount_untaxed, total_cost_amount) ==
    IF amount_untaxed # 0 /\ total_cost_amount # 0
    THEN RoundQuotient(100 * (amount_untaxed - total_cost_amount),
                       total_cost_amount)
    ELSE {0}

\* _compute_total_markup_percentage: the values it may store
ComputeTotalMarkupPercentage(amount_untaxed, total_cost_amount) ==
    IF amount_untaxed # 0 /\ total_cost_amount # 0
    THEN RoundQuotient(100 * (amount_untaxed - total_cost_amount),
                       amount_untaxed)
    ELSE {0}

\* the lines that enter the weighted average
Qualifying(ls) ==
    {i \in DOMAIN ls : ls[i].price_subtotal # 0 /\ ls[i].commission_factor # 0}

\* _compute_total_commission_factor
ComputeTotalCommissionFactor(ls, amount_untaxed) ==
    IF amount_untaxed # 0 /\ Len(ls) # 0
    THEN LET total_weighted_factor ==
                Sum([i \in DOMAIN ls |->
                        IF i \in Qualifying(ls)
                        THEN ls[i].price_subtotal * ls[i].commission_factor
                        ELSE 0])
             total_subtotal ==
                Sum([i \in DOMAIN ls |->
                        IF i \in Qualifying(ls) THEN ls[i].price_subtotal ELSE 0])
         IN  IF total_subtotal > 0
             THEN Fraction(total_weighted_factor, total_subtotal)
             ELSE Zero
    ELSE Zero

\* faulty variant of _compute_total_commission_amount: a negative total dropped
TotalCommissionAmountPositiveOnly(amount_untaxed, total_commission_factor) ==
    IF amount_untaxed > 0 /\ total_commission_factor.num # 0
    THEN Fraction(amount_untaxed * total_commission_factor.num,
                  total_commission_factor.den)
    ELSE Zero

\* _compute_total_commission_amount
ComputeTotalCommissionAmount(amount_untaxed, total_commission_factor) ==
    IF amount_untaxed # 0 /\ total_commission_factor.num # 0
    THEN Fraction(amount_untaxed * total_commission_factor.num,
                  total_commission_factor.den)
    ELSE Zero

\* the summary fields the order may hold once recomputed from the lines ls
ComputeOrder(ls) ==
    LET amount_untaxed == AmountUntaxed(ls)
        total_cost_amount == ComputeTotalCostAmount(ls)
        total_commission_factor == ComputeTotalCommissionFactor(ls, amount_untaxed)
    IN  {[amount_untaxed |-> amount_untaxed,
          total_cost_amount |-> total_cost_amount,
          total_markup_amount |->
              ComputeTotalMarkupAmount(amount_untaxed, total_cost_amount),
          total_markup_percentage |-> m,
          total_commission_factor |-> total_commission_factor,
          total_commission_amount |->
              ComputeTotalCommissionAmount(amount_untaxed, total_commission_factor)] :
            m \in ComputeTotalMarkupPercentage(amount_untaxed, total_cost_amount)}

\* faulty variant of the order's dependencies: the total cost not declared to
\* depend on the quantities
OrderDependsWithoutQuantity ==
    [amount_untaxed |-> {"order_line.price_subtotal"},
     total_cost_amount |-> {"order_line.purchase_price"},
     total_markup_amount |-> {"amount_untaxed", "total_cost_amount"},
     total_markup_percentage |-> {"total_cost_amount", "amount_untaxed"},
     total_commission_factor |->
         {"order_line.commission_factor", "order_line.price_subtotal"},
     total_commission_amount |-> {"amount_untaxed", "total_commission_factor"}]

\* The fields each computed field of sale.order is declared to depend on
\* (amount_untaxed is the sale module's)
OrderDepends ==
    [amount_untaxed |-> {"order_line.price_subtotal"},
     total_cost_amount |-> {"order_line.purchase_price", "order_line.product_uom_qty"},
     total_markup_amount |-> {"amount_untaxed", "total_cost_amount"},
     total_markup_percentage |-> {"total_cost_amount", "amount_untaxed"},
     total_commission_factor |->
         {"order_line.commission_factor", "order_line.price_subtotal"},
     total_commission_amount |-> {"amount_untaxed", "total_commission_factor"}]

\* the fields of sale.order.line, as the order's dependencies name them
LinePaths ==
    {"order_line.price_unit", "order_line.purchase_price",
     "order_line.product_uom_qty", "order_line.price_subtotal",
     "order_line.markup_percentage", "order_line.markup_amount",
     "order_line.commission_factor", "order_line.commission_amount"}

\* The recomputation of the order that a change of its lines triggers: the
\* lines are now ls and paths are the line fields that changed (all of them
\* when a line joined or left); a summary field that nothing triggers keeps
\* its stored value.
RecomputeOrder(stored, ls, paths) ==
    LET todo == Triggered(OrderDepends, paths)
        amount_untaxed ==
            IF "amount_untaxed" \in todo
            THEN AmountUntaxed(ls) ELSE stored.amount_untaxed
        total_cost_amount ==
            IF "total_cost_amount" \in todo
            THEN ComputeTotalCostAmount(ls) ELSE stored.total_cost_amount
        total_commission_factor ==
            IF "total_commission_factor" \in todo
            THEN ComputeTotalCommissionFactor(ls, amount_untaxed)
            ELSE stored.total_commission_factor
    IN  {[amount_untaxed |-> amount_untaxed,
          total_cost_amount |-> total_cost_amount,
          total_markup_amount |->
              IF "total_markup_amount" \in todo
              THEN ComputeTotalMarkupAmount(amount_untaxed, total_cost_amount)
              ELSE stored.total_markup_amount,
          total_markup_percentage |-> m,
          total_commission_factor |-> total_commission_factor,
          total_commission_amount |->
              IF "total_commission_amount" \in todo
              THEN ComputeTotalCommissionAmount(amount_untaxed, total_commission_factor)
              ELSE stored.total_commission_amount] :
            m \in IF "total_markup_percentage" \in todo
                  THEN ComputeTotalMarkupPercentage(amount_untaxed, total_cost_amount)
                  ELSE {stored.total_markup_percentage}}

(***************************************************************************)
(* Operations on the lines of the order.                                   *)
(***************************************************************************)
\* a line of order 1 before its fields are computed: no vendor (0), commission
\* payment pending by the field's default
NewLine(price_unit, purchase_price, product_uom_qty) ==
    [price_unit |-> price_unit, purchase_price |-> purchase_price,
     product_uom_qty |-> product_uom_qty, price_subtotal |-> 0,
     markup_percentage |-> 0, markup_amount |-> 0,
     commission_factor |-> 0, commission_amount |-> 0,
     order_id |-> 1, product_vendor_id |-> 0,
     commission_payment_status |-> "pending",
     can_edit_product_vendor |-> TRUE]

\* the lines become ls (or stay, when the recomputation raised) and the order
\* recomputes what the changed line fields trigger
Stored(raised, ls, paths) ==
    /\ IF raised = "none"
       THEN /\ lines' = ls
            /\ order' \in RecomputeOrder(order, ls, paths)
       ELSE UNCHANGED <<lines, order>>
    /\ last' = Outcome("sale.order.line", 0, NoVals, raised)
    /\ UNCHANGED <<factors, state>>

\* sale.order.line create on the order
AddLine(price_unit, purchase_price, product_uom_qty) ==
    /\ Len(lines) < MaxLines
    /\ \E o \in RecomputeLine(NewLine(price_unit, purchase_price, product_uom_qty),
                              factors,
                              {"price_unit", "purchase_price", "product_uom_qty"}) :
          Stored(o.raised, Append(lines, o.line), LinePaths)

\* sale.order.line write of one field
EditLine(i, name, value) ==
    /\ i \in DOMAIN lines
    /\ \E o \in RecomputeLine([lines[i] EXCEPT ![name] = value], factors, {name}) :
          Stored(o.raised, [lines EXCEPT ![i] = o.line],
                 {"order_line." \o f : f \in Triggered(LineDepends, {name})})

\* sale.order.line unlink
RemoveLine(i) ==
    /\ i \in DOMAIN lines
    /\ Stored("none",
              [k \in 1..(Len(lines) - 1) |-> IF k < i THEN lines[k] ELSE lines[k + 1]],
              LinePaths)

(***************************************************************************)
(* The vendor reference and the commission payment status of a line.       *)
(***************************************************************************)
\* product_vendor_id values: none (0) and one partner
VendorInputs == {0, 1}

\* vals of the writes made on lines
LineVals ==
    {[product_vendor_id |-> 1],
     [product_vendor_id |-> 1, commission_payment_status |-> "paid"],
     [commission_payment_status |-> "paid"]}

\* the lines of one order
OrderLines(ls, order_id) == SelectSeq(ls, LAMBDA l : l.order_id = order_id)

\* faulty variant of _compute_can_edit_product_vendor: cancelled orders editable
CanEditUnlessConfirmed(line, states) ==
    states[line.order_id] \in {"draft", "sent", "cancel"}

\* _compute_can_edit_product_vendor
ComputeCanEditProductVendor(line, states) ==
    states[line.order_id] \in {"draft", "sent"}

\* can_edit_product_vendor is not stored: it is computed again once a field it
\* depends on has been modified
RefreshCanEdit(line, states, names) ==
    IF "can_edit_product_vendor" \in Triggered(LineDepends, names)
    THEN [line EXCEPT
            !.can_edit_product_vendor = ComputeCanEditProductVendor(line, states)]
    ELSE line

\* sale.order.line create on an order, with a vendor or without
CreateLine(order_id, product_vendor_id, price_unit, purchase_price, product_uom_qty) ==
    /\ Len(lines) < MaxLines
    /\ LET names == {"order_id", "order_id.state", "product_vendor_id",
                     "price_unit", "purchase_price", "product_uom_qty"}
           new == [NewLine(price_unit, purchase_price, product_uom_qty) EXCEPT
                      !.order_id = order_id,
                      !.product_vendor_id = product_vendor_id]
       IN  \E o \in RecomputeLine(new, factors, names) :
              IF o.raised = "none"
              THEN LET ls == Append(lines, RefreshCanEdit(o.line, state, names))
                   IN  /\ lines' = ls
                       /\ order' \in IF order_id = 1
                                     THEN RecomputeOrder(order, OrderLines(ls, 1),
                                                         LinePaths)
                                     ELSE {order}
                       /\ last' = Outcome("line.create", {}, NoVals, "none")
              ELSE /\ UNCHANGED <<lines, order>>
                   /\ last' = Outcome("line.create", {}, NoVals, o.raised)
    /\ UNCHANGED <<factors, state>>

\* sale.order write of the state (confirmation, cancellation, back to draft)
SetState(order_id, value) ==
    /\ state[order_id] # value
    /\ state' = [state EXCEPT ![order_id] = value]
    /\ lines' = [i \in DOMAIN lines |->
                    IF lines[i].order_id = order_id
                    THEN RefreshCanEdit(lines[i], state', {"order_id.state"})
                    ELSE lines[i]]
    /\ last' = Outcome("order.write", {}, NoVals, "none")
    /\ UNCHANGED <<factors, order>>

\* super().write(vals) on the lines ids: the values are stored on each line
\* and what depends on them is recomputed
SuperWrite(op, ids, vals) ==
    LET outs == [i \in ids |->
                    RecomputeLine(Merged(lines[i], vals), factors, DOMAIN vals)]
    IN  \E pick \in [ids -> UNION {outs[i] : i \in ids}] :
            /\ \A i \in ids : pick[i] \in outs[i]
            /\ IF \A i \in ids : pick[i].raised = "none"
               THEN LET ls == [i \in DOMAIN lines |->
                                  IF i \in ids THEN pick[i].line ELSE lines[i]]
                        paths == {"order_line." \o f :
                                     f \in Triggered(LineDepends, DOMAIN vals)}
                    IN  /\ lines' = ls
                        /\ order' \in IF \E i \in ids : lines[i].order_id = 1
                                      THEN RecomputeOrder(order, OrderLines(ls, 1), paths)
                                      ELSE {order}
                        /\ last' = Outcome(op, ids, vals, "none")
               ELSE /\ UNCHANGED <<lines, order>>
                    /\ last' = Outcome(op, ids, vals, "ValueError")

\* faulty variant of write: only the first line of the recordset is checked
WriteLinesCheckingFirst(ids, vals) ==
    /\ ids # {} /\ ids \subseteq DOMAIN lines
    /\ IF /\ "product_vendor_id" \in DOMAIN vals
          /\ ~lines[CHOOSE i \in ids : \A k \in ids : i <= k].can_edit_product_vendor
       THEN /\ UNCHANGED <<lines, order>>
            /\ last' = Outcome("line.write", ids, vals, "ValidationError")
       ELSE SuperWrite("line.write", ids, vals)
    /\ UNCHANGED <<factors, state>>

\* SaleOrderLine.write on the recordset ids
WriteLines(ids, vals) ==
    /\ ids # {} /\ ids \subseteq DOMAIN lines
    /\ IF /\ "product_vendor_id" \in DOMAIN vals
          /\ \E i \in ids : ~lines[i].can_edit_product_vendor
       THEN /\ UNCHANGED <<lines, order>>
            /\ last' = Outcome("line.write", ids, vals, "ValidationError")
       ELSE SuperWrite("line.write", ids, vals)
    /\ UNCHANGED <<factors, state>>

\* faulty variant of the toggle: every line takes the flipped status of the first
ToggleFromFirst(ids) ==
    /\ ids # {} /\ ids \subseteq DOMAIN lines
    /\ LET first == CHOOSE i \in ids : \A k \in ids : i <= k
           value == IF lines[first].commission_payment_status = "pending"
                    THEN "paid" ELSE "pending"
       IN  /\ lines' = [i \in DOMAIN lines |->
                          IF i \in ids
                          THEN [lines[i] EXCEPT !.commission_payment_status = value]
                          ELSE lines[i]]
           /\ last' = Outcome("toggle_commission_payment_status", ids, NoVals, "none")
    /\ UNCHANGED <<factors, order, state>>

\* toggle_commission_payment_status on the recordset ids: each line is
\* assigned the other status, an assignment being a write of that one field
ToggleCommissionPaymentStatus(ids) ==
    /\ ids # {} /\ ids \subseteq DOMAIN lines
    /\ LET Flipped(line) ==
              IF line.commission_payment_status = "pending" THEN "paid" ELSE "pending"
           Assigned(line) ==
              CHOOSE o \in RecomputeLine(
                              Merged(line, [commission_payment_status |-> Flipped(line)]),
                              factors, {"commission_payment_status"}) : TRUE
       IN  /\ lines' = [i \in DOMAIN lines |->
                          IF i \in ids THEN Assigned(lines[i]).line ELSE lines[i]]
           /\ order' \in RecomputeOrder(order, OrderLines(lines', 1),
                                        {"order_line.commission_payment_status"})
           /\ last' = Outcome("toggle_commission_payment_status", ids, NoVals, "none")
    /\ UNCHANGED <<factors, state>>

(***************************************************************************)
(* The factor table administered while order lines are stored.             *)
(***************************************************************************)
\* vals of the creates and writes made on the table beside stored lines
TableCreateVals == {[markup_percentage |-> 20, commission_factor |-> 4000]}

TableWriteVals ==
    {[markup_percentage |-> 67], [commission_factor |-> 10000],
     [active |-> FALSE], [active |-> TRUE]}

\* the fields of sales.commission.factor, as a dependency would name them
FactorPaths(fnames) == {"sales.commission.factor." \o f : f \in fnames}

\* The recomputation that a change of the table triggers on the stored
\* lines and on the order: each line recomputes the fields that depend on
\* the modified table fields, the order what those line fields trigger.
Refreshed(table, paths) ==
    LET outs == [i \in DOMAIN lines |-> RecomputeLine(lines[i], table, paths)]
        fields == Triggered(LineDepends, paths) \cap DOMAIN LineDepends
    IN  \E pick \in [DOMAIN lines -> UNION {outs[i] : i \in DOMAIN lines}] :
            /\ \A i \in DOMAIN lines : pick[i] \in outs[i]
            /\ IF \A i \in DOMAIN lines : pick[i].raised = "none"
               THEN LET ls == [i \in DOMAIN lines |-> pick[i].line]
                    IN  /\ lines' = ls
                        /\ order' \in RecomputeOrder(order, ls,
                                         {"order_line." \o f : f \in fields})
               ELSE UNCHANGED <<lines, order>>

\* create of a table entry, with the recomputation it triggers
CreateBesideLines(vals) ==
    /\ Create(vals)
    /\ IF last'.raised = "none"
       THEN Refreshed(factors', FactorPaths(DOMAIN vals \cup DOMAIN Defaults))
       ELSE UNCHANGED <<lines, order>>
    /\ UNCHANGED state

\* write on a table entry, with the recomputation it triggers
WriteBesideLines(id, vals) ==
    /\ Write(id, vals)
    /\ IF last'.raised = "none"
       THEN Refreshed(factors', FactorPaths(DOMAIN vals))
       ELSE UNCHANGED <<lines, order>>
    /\ UNCHANGED state

(***************************************************************************)
(* The VM configurator wizard.                                             *)
(***************************************************************************)
FLAVOR_TABLE ==
    << [name |-> "small1", vcpus |-> 1, ram_gb |-> 2],
       [name |-> "small2", vcpus |-> 1, ram_gb |-> 4],
       [name |-> "small3", vcpus |-> 2, ram_gb |-> 4],
       [name |-> "medium1", vcpus |-> 2, ram_gb |-> 6],
       [name |-> "medium2", vcpus |-> 2, ram_gb |-> 8],
       [name |-> "medium3", vcpus |-> 4, ram_gb |-> 8],
       [name |-> "medium4", vcpus |-> 4, ram_gb |-> 12],
       [name |-> "large1", vcpus |-> 4, ram_gb |-> 16],
       [name |-> "large2", vcpus |-> 6, ram_gb |-> 12],
       [name |-> "large3", vcpus |-> 6, ram_gb |-> 16],
       [name |-> "large4", vcpus |-> 8, ram_gb |-> 16],
       [name |-> "large5", vcpus |-> 8, ram_gb |-> 24] >>

\* faulty variant of suggest_flavor: the bounds of the rules taken strictly
SuggestFlavorStrictBounds(vcpus, ram_gb) ==
    IF vcpus = 0 \/ ram_gb = 0
    THEN ""
    ELSE LET hits == {i \in DOMAIN FLAVOR_TABLE :
                        /\ FLAVOR_TABLE[i].vcpus = vcpus
                        /\ FLAVOR_TABLE[i].ram_gb = ram_gb}
         IN  IF hits # {}
             THEN "ncs.g-" \o FLAVOR_TABLE[CHOOSE i \in hits : \A k \in hits : i <= k].name
             ELSE IF vcpus < 2 /\ ram_gb < 4 THEN "ncs.g-small.cus"
             ELSE IF vcpus < 6 /\ ram_gb < 8 THEN "ncs.g-medium.cus"
             ELSE IF vcpus < 8 /\ ram_gb < 24 THEN "ncs.g-large.cus"
             ELSE "ncs.g-xlarge"

\* suggest_flavor
suggest_flavor(vcpus, ram_gb) ==
    IF vcpus = 0 \/ ram_gb = 0
    THEN ""
    ELSE LET hits == {i \in DOMAIN FLAVOR_TABLE :
                        /\ FLAVOR_TABLE[i].vcpus = vcpus
                        /\ FLAVOR_TABLE[i].ram_gb = ram_gb}
         IN  IF hits # {}
             THEN "ncs.g-" \o FLAVOR_TABLE[CHOOSE i \in hits : \A k \in hits : i <= k].name
             ELSE IF vcpus <= 2 /\ ram_gb <= 4 THEN "ncs.g-small.cus"
             ELSE IF vcpus <= 6 /\ ram_gb <= 8 THEN "ncs.g-medium.cus"
             ELSE IF vcpus <= 8 /\ ram_gb <= 24 THEN "ncs.g-large.cus"
             ELSE "ncs.g-xlarge"

\* the vCPU and RAM values entered in the wizard
VcpuInputs == {-1, 0, 1, 2, 3, 4, 6, 7, 8, 9}

RamInputs == {-1, 0, 2, 4, 5, 6, 8, 9, 12, 16, 24, 25}

\* the pairs entered when the wizard is applied again and again: no flavor
\* yet, a row of the table, no row of the table
RepeatInputs == {<<0, 0>>, <<1, 2>>, <<2, 2>>}

\* product.product names: the three base products and the backup product
BaseProducts == {"CPU vCore", "RAM GB", "Disco GB"}

BackupProduct == "Backup - puntos extra"

\* every string suggest_flavor returns
Flavors ==
    {""} \cup {"ncs.g-" \o FLAVOR_TABLE[i].name : i \in DOMAIN FLAVOR_TABLE}
         \cup {"ncs.g-small.cus", "ncs.g-medium.cus", "ncs.g-large.cus", "ncs.g-xlarge"}

\* the suffixes _unique_section_title appends
Suffixes == {""} \cup {"-" \o ToString(n) : n \in 2..(MaxBlocks + 1)}

\* name.startswith(prefix), for the section names the wizard produces: what
\* follows the prefix is the rest of a title
StartsWith(name, prefix) ==
    \E f \in Flavors : \E x \in Suffixes : name = prefix \o f \o x

\* no wizard open, no line on the quotation, every product present
NoWizard ==
    /\ wizard = [vcpus |-> 0, ram_gb |-> 0, disk_gb |-> 0,
                 backup_extra_points |-> 0, flavor |-> ""]
    /\ order_line = <<>>
    /\ products = BaseProducts \cup {BackupProduct}

\* the field defaults of the wizard
WizardDefaults ==
    [vcpus |-> 0, ram_gb |-> 0, disk_gb |-> 0, backup_extra_points |-> 5]

\* default_get(fields_list): the flavor shown is suggested from the defaults
\* of vcpus and ram_gb when fields_list asks for them, from 2 and 4 when not
DefaultGet(fields_list) ==
    /\ LET vals == [k \in fields_list \cap DOMAIN WizardDefaults |-> WizardDefaults[k]]
           v == IF "vcpus" \in DOMAIN vals THEN vals.vcpus ELSE 2
           r == IF "ram_gb" \in DOMAIN vals THEN vals.ram_gb ELSE 4
       IN  wizard' = [vcpus |-> WizardDefaults.vcpus,
                      ram_gb |-> WizardDefaults.ram_gb,
                      disk_gb |-> WizardDefaults.disk_gb,
                      backup_extra_points |-> WizardDefaults.backup_extra_points,
                      flavor |-> suggest_flavor(v, r)]
    /\ last' = Outcome("default_get", 0, NoVals, "none")
    /\ UNCHANGED <<order_line, products>>

\* the form edits vcpus and ram_gb; _onchange_flavor refreshes the flavor shown
OnchangeFlavor(vcpus, ram_gb) ==
    /\ wizard' = [wizard EXCEPT !.vcpus = vcpus, !.ram_gb = ram_gb,
                                !.flavor = suggest_flavor(vcpus, ram_gb)]
    /\ last' = Outcome("_onchange_flavor", 0, NoVals, "none")
    /\ UNCHANGED <<order_line, products>>

\* write on the wizard record: no onchange runs, the flavor shown stays
WriteWizard(vcpus, ram_gb, disk_gb) ==
    /\ wizard' = [wizard EXCEPT !.vcpus = vcpus, !.ram_gb = ram_gb,
                                !.disk_gb = disk_gb]
    /\ last' = Outcome("wizard.write", 0, NoVals, "none")
    /\ UNCHANGED <<order_line, products>>

\* _ensure_products: the base products must exist
EnsureProducts == BaseProducts \subseteq products

\* _next_sequence
NextSequence(ls) ==
    LET seqs == IF Len(ls) = 0 THEN {0} ELSE {ls[i].sequence : i \in DOMAIN ls}
    IN  (CHOOSE m \in seqs : \A n \in seqs : m >= n) + 10

\* _unique_section_title
UniqueSectionTitle(ls, base_title) ==
    LET section_prefix == "[VM] " \o base_title
        existing == {i \in DOMAIN ls :
                        /\ ls[i].display_type = "line_section"
                        /\ StartsWith(ls[i].name, section_prefix)}
    IN  IF existing = {}
        THEN base_title
        ELSE base_title \o "-" \o ToString(Cardinality(existing) + 1)

\* _add_section
AddSection(title, seq) ==
    [display_type |-> "line_section", name |-> "[VM] " \o title,
     product_uom_qty |-> 0, sequence |-> seq]

ProductLine(name, qty, seq) ==
    [display_type |-> "product", name |-> name, product_uom_qty |-> qty,
     sequence |-> seq]

\* the blocks on the quotation: one CPU line each
Blocks(ls) == {i \in DOMAIN ls : ls[i].name = "CPU vCore"}

\* action_apply
ActionApply ==
    /\ Cardinality(Blocks(order_line)) < MaxBlocks
    /\ IF ~EnsureProducts
       THEN /\ UNCHANGED order_line
            /\ last' = Outcome("action_apply", 0, NoVals, "ValueError")
       ELSE LET flavor == suggest_flavor(wizard.vcpus, wizard.ram_gb)
                title == UniqueSectionTitle(order_line, flavor)
                seq == NextSequence(order_line)
                block == << AddSection(title, seq),
                            ProductLine("CPU vCore", wizard.vcpus, seq + 1),
                            ProductLine("RAM GB", wizard.ram_gb, seq + 2),
                            ProductLine("Disco GB", wizard.disk_gb, seq + 3) >>
                backup == IF BackupProduct \in products
                             /\ wizard.backup_extra_points # 0
                          THEN << ProductLine(BackupProduct,
                                              wizard.backup_extra_points, seq + 4) >>
                          ELSE << >>
            IN  /\ order_line' = order_line \o block \o backup
                /\ last' = Outcome("action_apply", 0, NoVals, "none")
    /\ UNCHANGED <<wizard, products>>

\* unlink of lines of the quotation
UnlinkLines(ids) ==
    /\ ids # {} /\ ids \subseteq DOMAIN order_line
    /\ order_line' = SelectSeq([i \in DOMAIN order_line |->
                                   IF i \in ids THEN << >> ELSE order_line[i]],
                               LAMBDA l : l # << >>)
    /\ last' = Outcome("unlink", 0, NoVals, "none")
    /\ UNCHANGED <<wizard, products>>

(***************************************************************************)
(* The menu filter.                                                        *)
(***************************************************************************)
MODULE_PREFIX == "cloud_subscriptions_simplified."

\* MODULE_PREFIX.rstrip('.').split('.')[0]
ModuleName == "cloud_subscriptions_simplified"

\* a node of a menu tree: a dict with keys 'id' and 'children'
Node(id, children) == [id |-> id, children |-> children]

\* the menus of the host, nested
HostNodes ==
    {<< Node(1, << Node(2, << >>), Node(3, << Node(4, << >>) >>) >>),
        Node(5, << >>) >>,
     << Node(5, << Node(1, << >>), Node(3, << >>) >>) >>}

\* what super().load_menus returns: a dict with the root's children, a list
\* of root nodes, or a dict keyed by menu id (and 'root') whose entries hold
\* the ids of their children
DictTree(kids) == [type |-> "dict", id |-> 0, children |-> kids]

ListTree(kids) == [type |-> "list", items |-> kids]

RECURSIVE NodeIds(_)
NodeIds(kids) ==
    IF kids = << >>
    THEN {}
    ELSE {Head(kids).id} \cup NodeIds(Head(kids).children) \cup NodeIds(Tail(kids))

RECURSIVE ChildrenOf(_, _)
ChildrenOf(kids, id) ==
    IF kids = << >>
    THEN << >>
    ELSE IF Head(kids).id = id
         THEN Head(kids).children
         ELSE ChildrenOf(Head(kids).children, id) \o ChildrenOf(Tail(kids), id)

IdsOf(kids) == [i \in DOMAIN kids |-> kids[i].id]

DictById(kids) ==
    [type |-> "dict",
     root |-> Node(0, IdsOf(kids)),
     items |-> [i \in NodeIds(kids) |-> Node(i, IdsOf(ChildrenOf(kids, i)))]]

HostMenus ==
    {DictTree(k) : k \in HostNodes} \cup {ListTree(k) : k \in HostNodes}
        \cup {DictById(k) : k \in HostNodes}

CompanyNames == {"Nubi2go", "Acme"}

\* ir.config_parameter: the value of 'cloud.nubi2go_company_name', "" when
\* the parameter is not set
ParamValues == {"", "Nubi2go", "Acme"}

\* ir.model.data records: xml ids of menus of this module, of a menu of
\* another module, of a record of this module that is no menu
ImdRecord(model, module, res_id) ==
    [model |-> model, module |-> module, res_id |-> res_id]

ImdOthers ==
    {ImdRecord("ir.ui.menu", "sale", 1),
     ImdRecord("ir.ui.view", "cloud_subscriptions_simplified", 5)}

ImdSets ==
    {ImdOthers \cup {ImdRecord("ir.ui.menu", "cloud_subscriptions_simplified", i) : i \in ids} :
        ids \in {{}, {3}, {2, 5}, {4}}}

NoMenus ==
    /\ env = [company |-> "Nubi2go", param |-> "", imd |-> ImdOthers,
              menus |-> ListTree(<< >>)]
    /\ menus = [type |-> "none"]

\* get_param(key, default) of the host: the stored value, the default
\* without one
GetParam(value, default) == IF value = "" THEN default ELSE value

\* prune(node): whether the node stays, and the node with its kept children
RECURSIVE prune(_, _)
prune(node, module_menu_ids) ==
    IF node.id \in module_menu_ids
    THEN [keep |-> FALSE, node |-> node]
    ELSE LET kids == node.children
             pruned == [i \in DOMAIN kids |-> prune(kids[i], module_menu_ids)]
             kept == SelectSeq(pruned, LAMBDA r : r.keep)
         IN  [keep |-> TRUE,
              node |-> [node EXCEPT !.children = [i \in DOMAIN kept |-> kept[i].node]]]

\* [n for n in nodes if prune(n)]
Pruned(nodes, module_menu_ids) ==
    LET pruned == [i \in DOMAIN nodes |-> prune(nodes[i], module_menu_ids)]
        kept == SelectSeq(pruned, LAMBDA r : r.keep)
    IN  [i \in DOMAIN kept |-> kept[i].node]

\* load_menus
LoadMenus ==
    /\ LET host == env.menus
           target_name == GetParam(env.param, "Nubi2go")
           imd == {r \in env.imd : r.model = "ir.ui.menu" /\ r.module = ModuleName}
           module_menu_ids == {r.res_id : r \in imd}
       IN  menus' =
               IF env.company = target_name
               THEN host
               ELSE IF host.type = "dict" /\ "children" \in DOMAIN host
               THEN [host EXCEPT !.children = Pruned(@, module_menu_ids)]
               ELSE IF host.type = "list"
               THEN [host EXCEPT !.items = Pruned(@, module_menu_ids)]
               ELSE host
    /\ last' = Outcome("load_menus", 0, NoVals, "none")
    /\ UNCHANGED env

\* the user switches company, the administrator sets the parameter, a module
\* update changes the xml ids
SetCompany(name) ==
    /\ env' = [env EXCEPT !.company = name]
    /\ last' = Outcome("env.company", 0, NoVals, "none")
    /\ UNCHANGED menus

SetParam(value) ==
    /\ env' = [env EXCEPT !.param = value]
    /\ last' = Outcome("set_param", 0, NoVals, "none")
    /\ UNCHANGED menus

SetImd(records) ==
    /\ env' = [env EXCEPT !.imd = records]
    /\ last' = Outcome("ir.model.data", 0, NoVals, "none")
    /\ UNCHANGED menus

(***************************************************************************)
(* Specification.                                                          *)
(***************************************************************************)
Init ==
    /\ factors = <<>>
    /\ last = Outcome("init", 0, NoVals, "none")
    /\ lines = <<>>
    /\ order \in ComputeOrder(<<>>)
    /\ state = [o \in OrderIds |-> "draft"]
    /\ NoWizard
    /\ NoMenus

DoCreate == \E vals \in CreateVals : Create(vals)

DoWrite == \E id \in 1..MaxEntries : \E vals \in WriteVals : Write(id, vals)

DoLookup == \E p \in LookupInputs : Lookup(p)

Next ==
    \/ DoCreate /\ UNCHANGED <<saleVars, wizardVars, menuVars>>
    \/ DoWrite /\ UNCHANGED <<saleVars, wizardVars, menuVars>>
    \/ DoLookup /\ UNCHANGED <<saleVars, wizardVars, menuVars>>

Spec == Init /\ [][Next]_vars

\* The order specification: one sale order under a factor table that stays
\* as it is while lines are added, edited and removed.
InitOrder ==
    /\ factors \in OrderTables
    /\ last = Outcome("init", 0, NoVals, "none")
    /\ lines = <<>>
    /\ order \in ComputeOrder(<<>>)
    /\ state = [o \in OrderIds |-> "draft"]
    /\ NoWizard
    /\ NoMenus

DoAddLine ==
    \E p \in PriceInputs : \E c \in CostInputs : \E q \in QtyInputs : AddLine(p, c, q)

DoEditLine ==
    \E i \in 1..MaxLines :
        \/ \E p \in PriceInputs : EditLine(i, "price_unit", p)
        \/ \E c \in CostInputs : EditLine(i, "purchase_price", c)
        \/ \E q \in QtyInputs : EditLine(i, "product_uom_qty", q)

DoRemoveLine == \E i \in 1..MaxLines : RemoveLine(i)

NextOrder ==
    \/ DoAddLine /\ UNCHANGED <<wizardVars, menuVars>>
    \/ DoEditLine /\ UNCHANGED <<wizardVars, menuVars>>
    \/ DoRemoveLine /\ UNCHANGED <<wizardVars, menuVars>>

SpecOrder == InitOrder /\ [][NextOrder]_vars

\* The vendor specification: lines of two orders under a table of two active
\* entries, while the orders change state and the lines are written.
InitVendor ==
    /\ factors = <<FactorEntry(67, 4000, TRUE), FactorEntry(20, 10000, TRUE)>>
    /\ last = Outcome("init", {}, NoVals, "none")
    /\ lines = <<>>
    /\ order \in ComputeOrder(<<>>)
    /\ state = [o \in OrderIds |-> "draft"]
    /\ NoWizard
    /\ NoMenus

DoCreateLine ==
    \E o \in OrderIds : \E v \in VendorInputs : CreateLine(o, v, 100, 80, 2)

DoSetState == \E o \in OrderIds : \E s \in OrderStates : SetState(o, s)

DoWriteLines ==
    \E ids \in SUBSET (1..MaxLines) : \E vals \in LineVals : WriteLines(ids, vals)

DoToggle == \E ids \in SUBSET (1..MaxLines) : ToggleCommissionPaymentStatus(ids)

NextVendor ==
    \/ DoCreateLine /\ UNCHANGED <<wizardVars, menuVars>>
    \/ DoSetState /\ UNCHANGED <<wizardVars, menuVars>>
    \/ DoWriteLines /\ UNCHANGED <<wizardVars, menuVars>>
    \/ DoToggle /\ UNCHANGED <<wizardVars, menuVars>>

SpecVendor == InitVendor /\ [][NextVendor]_vars

\* the fields_list of the wizard's form, and one without vcpus and ram_gb
FieldsLists ==
    {{"order_id", "vcpus", "ram_gb", "disk_gb", "backup_extra_points", "flavor"},
     {"order_id", "flavor"}}

\* the products found by _ensure_products: all, no backup product, no CPU
ProductSets ==
    {BaseProducts \cup {BackupProduct}, BaseProducts,
     (BaseProducts \cup {BackupProduct}) \ {"CPU vCore"}}

NoSale ==
    /\ factors = <<>>
    /\ lines = <<>>
    /\ order \in ComputeOrder(<<>>)
    /\ state = [o \in OrderIds |-> "draft"]

\* the wizard applied again and again to one quotation, whose section lines
\* the user may delete
InitWizard ==
    /\ NoSale
    /\ last = Outcome("init", 0, NoVals, "none")
    /\ wizard = [vcpus |-> 0, ram_gb |-> 0, disk_gb |-> 0,
                 backup_extra_points |-> 0, flavor |-> ""]
    /\ order_line = <<>>
    /\ products \in ProductSets
    /\ NoMenus

DoDefaultGet == \E fl \in FieldsLists : DefaultGet(fl)

DoOnchangeRepeat == \E p \in RepeatInputs : OnchangeFlavor(p[1], p[2])

DoApply == ActionApply

DoUnlinkSection ==
    \E i \in DOMAIN order_line :
        /\ order_line[i].display_type = "line_section"
        /\ UnlinkLines({i})

NextWizard ==
    \/ DoDefaultGet /\ UNCHANGED <<factors, saleVars, menuVars>>
    \/ DoOnchangeRepeat /\ UNCHANGED <<factors, saleVars, menuVars>>
    \/ DoApply /\ UNCHANGED <<factors, saleVars, menuVars>>
    \/ DoUnlinkSection /\ UNCHANGED <<factors, saleVars, menuVars>>

SpecWizard == InitWizard /\ [][NextWizard]_vars

\* the wizard applied once to an empty quotation, for every pair of inputs
InitFlavor ==
    /\ NoSale
    /\ last = Outcome("init", 0, NoVals, "none")
    /\ NoWizard
    /\ NoMenus

DoOpen == order_line = <<>> /\ \E fl \in FieldsLists : DefaultGet(fl)

DoOnchange ==
    /\ order_line = <<>>
    /\ \E v \in VcpuInputs : \E r \in RamInputs : OnchangeFlavor(v, r)

DoWriteWizard ==
    /\ order_line = <<>>
    /\ \E v \in VcpuInputs : \E r \in RamInputs : WriteWizard(v, r, 10)

DoApplyOnce == order_line = <<>> /\ ActionApply

DoDiscard == UnlinkLines(DOMAIN order_line)

NextFlavor ==
    \/ DoOpen /\ UNCHANGED <<factors, saleVars, menuVars>>
    \/ DoOnchange /\ UNCHANGED <<factors, saleVars, menuVars>>
    \/ DoWriteWizard /\ UNCHANGED <<factors, saleVars, menuVars>>
    \/ DoApplyOnce /\ UNCHANGED <<factors, saleVars, menuVars>>
    \/ DoDiscard /\ UNCHANGED <<factors, saleVars, menuVars>>

SpecFlavor == InitFlavor /\ [][NextFlavor]_vars

InitMenus ==
    /\ NoSale
    /\ last = Outcome("init", 0, NoVals, "none")
    /\ NoWizard
    /\ env \in [company : CompanyNames, param : ParamValues, imd : ImdSets,
                menus : HostMenus]
    /\ menus = [type |-> "none"]

DoLoadMenus == LoadMenus

DoSetCompany == \E c \in CompanyNames : SetCompany(c)

DoSetParam == \E v \in ParamValues : SetParam(v)

DoSetImd == \E r \in ImdSets : SetImd(r)

NextMenus ==
    \/ DoLoadMenus /\ UNCHANGED <<factors, saleVars, wizardVars>>
    \/ DoSetCompany /\ UNCHANGED <<factors, saleVars, wizardVars>>
    \/ DoSetParam /\ UNCHANGED <<factors, saleVars, wizardVars>>
    \/ DoSetImd /\ UNCHANGED <<factors, saleVars, wizardVars>>

SpecMenus == InitMenus /\ [][NextMenus]_vars

\* the table administered while an order holds lines
InitStale ==
    /\ factors = <<>>
    /\ last = Outcome("init", 0, NoVals, "none")
    /\ lines = <<>>
    /\ order \in ComputeOrder(<<>>)
    /\ state = [o \in OrderIds |-> "draft"]
    /\ NoWizard
    /\ NoMenus

DoCreateBesideLines == \E vals \in TableCreateVals : CreateBesideLines(vals)

DoWriteBesideLines == \E vals \in TableWriteVals : WriteBesideLines(1, vals)

DoAddPricedLine == AddLine(100, 80, 2)

DoEditCost == \E i \in 1..MaxLines : \E c \in {80, 33} : EditLine(i, "purchase_price", c)

DoEditQuantity == \E i \in 1..MaxLines : \E q \in {2, 3} : EditLine(i, "product_uom_qty", q)

NextStale ==
    \/ DoCreateBesideLines /\ UNCHANGED <<wizardVars, menuVars>>
    \/ DoWriteBesideLines /\ UNCHANGED <<wizardVars, menuVars>>
    \/ DoAddPricedLine /\ UNCHANGED <<wizardVars, menuVars>>
    \/ DoEditCost /\ UNCHANGED <<wizardVars, menuVars>>
    \/ DoEditQuantity /\ UNCHANGED <<wizardVars, menuVars>>

SpecStale == InitStale /\ [][NextStale]_vars

(***************************************************************************)
(* Vocabulary of the properties.                                           *)
(***************************************************************************)
IsLookup == last.op = "get_commission_factor"

IsAdmin == last.op \in {"create", "write"}

ActiveIds == {i \in DOMAIN factors : factors[i].active = TRUE}

ActivePercentages == {factors[i].markup_percentage : i \in ActiveIds}

ActiveDistinct ==
    \A i, j \in ActiveIds :
        i # j => factors[i].markup_percentage # factors[j].markup_percentage

MinPercentage == CHOOSE m \in ActivePercentages : \A n \in ActivePercentages : m <= n

MaxPercentage == CHOOSE m \in ActivePercentages : \A n \in ActivePercentages : m >= n

\* the integer nearest to a value given in tenths, a tie going to the even one
NearestEven(tenths) ==
    CHOOSE n \in (tenths \div 10)..(tenths \div 10 + 1) :
        /\ 10 * n - tenths <= 5
        /\ tenths - 10 * n <= 5
        /\ (tenths % 10 = 5 => n % 2 = 0)

\* C1: with pairwise distinct active percentages, a lookup whose rounded input
\* equals an active entry's markup_percentage returns that entry's
\* commission_factor and does not raise.
C1_ExactMatchReturnsEntryFactor ==
    (IsLookup /\ ActiveDistinct) =>
        \A i \in ActiveIds :
            factors[i].markup_percentage = last.rounded =>
                /\ last.raised = "none"
                /\ last.value = factors[i].commission_factor

C1_Witness ==
    /\ IsLookup
    /\ ActiveDistinct
    /\ Cardinality(ActiveIds) = 2
    /\ \E i \in ActiveIds :
          /\ factors[i].markup_percentage = last.rounded
          /\ factors[i].commission_factor = last.value
          /\ \E j \in ActiveIds : factors[j].commission_factor # last.value

\* C2: with no exact match, a rounded input below the smallest active percentage
\* gets the factor of an entry with the smallest percentage, and one above the
\* largest gets the factor of an entry with the largest, whatever the creation
\* order of the entries.
C2_ClampToMinAndMax ==
    (IsLookup /\ ActiveIds # {} /\ last.rounded \notin ActivePercentages) =>
        /\ last.rounded < MinPercentage =>
              /\ last.raised = "none"
              /\ \E i \in ActiveIds :
                    /\ factors[i].markup_percentage = MinPercentage
                    /\ last.value = factors[i].commission_factor
        /\ last.rounded > MaxPercentage =>
              /\ last.raised = "none"
              /\ \E i \in ActiveIds :
                    /\ factors[i].markup_percentage = MaxPercentage
                    /\ last.value = factors[i].commission_factor

\* the smallest entry was created after the largest, and the input is below it
C2_Witness ==
    /\ IsLookup
    /\ Cardinality(ActiveIds) = 2
    /\ factors[1].markup_percentage > factors[2].markup_percentage
    /\ factors[1].commission_factor # factors[2].commission_factor
    /\ last.rounded < factors[2].markup_percentage
    /\ last.value = factors[2].commission_factor

\* C3: a rounded input strictly between the smallest and the largest active
\* percentage that equals no active percentage resolves to 0.0.
C3_GapResolvesToZero ==
    (/\ IsLookup
     /\ ActiveIds # {}
     /\ last.rounded \notin ActivePercentages
     /\ MinPercentage < last.rounded
     /\ last.rounded < MaxPercentage) =>
        /\ last.raised = "none"
        /\ last.value = 0

C3_Witness ==
    /\ IsLookup
    /\ Cardinality(ActiveIds) = 2
    /\ \A i \in ActiveIds : factors[i].commission_factor # 0
    /\ MinPercentage < last.rounded
    /\ last.rounded < MaxPercentage
    /\ last.value = 0

\* C4: with no active entry the lookup returns 0.0 for every input, also when
\* the table holds inactive entries.
C4_NoActiveEntryGivesZero ==
    (IsLookup /\ ActiveIds = {}) =>
        /\ last.raised = "none"
        /\ last.value = 0

\* only inactive entries, one of them at the rounded input with a factor # 0
C4_Witness ==
    /\ IsLookup
    /\ ActiveIds = {}
    /\ \E i \in DOMAIN factors :
          /\ factors[i].markup_percentage = last.rounded
          /\ factors[i].commission_factor # 0
    /\ last.value = 0

\* C5 as stated: a tie n + 0.5 is rounded away from zero, to n + 1, and
\* -(n + 0.5) to -(n + 1).
C5_TiesRoundAwayFromZero ==
    (IsLookup /\ last.arg % 10 = 5) =>
        last.rounded = IF last.arg >= 0 THEN (last.arg + 5) \div 10
                                        ELSE -((5 - last.arg) \div 10)

\* C5 as amended: the input is rounded to a nearest integer, and a tie is
\* rounded to the even neighbour (14.5 to 14, 15.5 to 16, -1.5 to -2).
C5_TiesRoundToEven ==
    IsLookup =>
        /\ 10 * last.rounded - last.arg <= 5
        /\ last.arg - 10 * last.rounded <= 5
        /\ (last.arg % 10 = 5 => last.rounded % 2 = 0)

\* a tie that was rounded down to the even neighbour
C5_Witness ==
    /\ IsLookup
    /\ last.arg % 10 = 5
    /\ last.arg > 0
    /\ 10 * last.rounded < last.arg

\* C6: the lookup of p gives what the lookup of p rounded to an integer gives.
C6_LookupOfRoundedInput ==
    IsLookup =>
        \E r \in GetCommissionFactor(factors, 10 * NearestEven(last.arg)) :
            /\ r.raised = last.raised
            /\ r.value = last.value

\* a non-integer input that hits an exact entry
C6_Witness ==
    /\ IsLookup
    /\ last.arg % 10 # 0
    /\ last.raised = "none"
    /\ last.value # 0
    /\ Cardinality(ActiveIds) = 2
    /\ \E i \in ActiveIds :
          /\ factors[i].markup_percentage = last.rounded
          /\ factors[i].commission_factor = last.value
          /\ \E j \in ActiveIds : factors[j].commission_factor # last.value

\* another active entry already has percentage pct
Conflict(table, id, pct) ==
    \E j \in DOMAIN table :
        /\ j # id
        /\ table[j].active = TRUE
        /\ table[j].markup_percentage = pct

PercentageInRange(pct) == 0 <= pct /\ pct <= 1000

FactorInRange(f) == 0 <= f /\ f <= FactorUnit

\* some value of vals lies outside its range
OutOfRange(vals) ==
    \/ /\ "markup_percentage" \in DOMAIN vals
       /\ ~PercentageInRange(vals.markup_percentage)
    \/ /\ "commission_factor" \in DOMAIN vals
       /\ ~FactorInRange(vals.commission_factor)

\* C7: in every state reached by create, edit, deactivate and reactivate, the
\* markup_percentage values of the active entries are pairwise distinct.
C7_ActivePercentagesDistinct == ActiveDistinct

\* C8: a create or an edit that sets the percentage to P (all values in range)
\* succeeds exactly when no other entry with percentage P is active; inactive
\* entries with P do not block it.  The other entries are the same before and
\* after the call, so the condition is read off the state the call leaves.
C8_PercentageReusableOnceDeactivated ==
    (/\ IsAdmin
     /\ "markup_percentage" \in DOMAIN last.vals
     /\ ~OutOfRange(last.vals)) =>
        (last.raised = "none"
            <=> ~Conflict(factors, last.id, last.vals.markup_percentage))

\* a create that reuses the percentage of a deactivated entry
C8_Witness ==
    /\ last.op = "create"
    /\ last.raised = "none"
    /\ last.id \in DOMAIN factors
    /\ factors[last.id].active = TRUE
    /\ \E j \in DOMAIN factors :
          /\ j # last.id
          /\ factors[j].active = FALSE
          /\ factors[j].markup_percentage = factors[last.id].markup_percentage

C9_Step ==
    /\ (last'.op \in {"create", "write"} /\ OutOfRange(last'.vals)) =>
            /\ last'.raised = "ValidationError"
            /\ factors' = factors
    /\ (/\ last'.op \in {"create", "write"}
        /\ ~OutOfRange(last'.vals)
        /\ "markup_percentage" \in DOMAIN last'.vals =>
                ~Conflict(factors, last'.id, last'.vals.markup_percentage)) =>
            /\ last'.raised = "none"
            /\ \A k \in DOMAIN last'.vals : factors'[last'.id][k] = last'.vals[k]
    /\ \A i \in DOMAIN factors' :
            /\ PercentageInRange(factors'[i].markup_percentage)
            /\ FactorInRange(factors'[i].commission_factor)

\* C9: a create or edit with markup_percentage outside [0, 1000] or
\* commission_factor outside [0, 1] fails with a validation error and leaves the
\* table as it was; values in range, the boundaries 0, 1000, 0.0 and 1.0 among
\* them, are stored when no active entry has the percentage; so every stored
\* entry, active or not, has its percentage in [0, 1000] and its factor in [0, 1].
C9_RangeValidation == [][C9_Step]_vars

\* an entry holding both upper boundaries, and an edit past one of them refused
C9_Witness ==
    /\ last.op = "write"
    /\ last.raised = "ValidationError"
    /\ OutOfRange(last.vals)
    /\ factors[last.id].markup_percentage = 1000
    /\ factors[last.id].commission_factor = FactorUnit

\* C10: in every table state the administrative operations reach, the lookup
\* raises nothing and returns a factor.
C10_LookupNeverRaises ==
    IsLookup =>
        /\ last.raised = "none"
        /\ FactorInRange(last.value)

(***************************************************************************)
(* Order lines and the order.                                              *)
(***************************************************************************)
\* an active entry of the table with this percentage and factor
HasActiveEntry(pct, f) ==
    \E i \in DOMAIN factors :
        /\ factors[i].active
        /\ factors[i].markup_percentage = pct
        /\ factors[i].commission_factor = f

\* n is an integer nearest to num / den (den # 0)
IsNearestInteger(n, num, den) == 2 * Abs(n * den - num) <= Abs(den)

\* C11: a line whose unit price is 0, or whose unit cost is absent or 0, has
\* markup_percentage, markup_amount, commission_factor and commission_amount
\* all 0, whatever its quantity and whatever the factor table holds, and
\* computing them raises nothing.
C11_ZeroPriceOrCostGivesZeros ==
    /\ \A i \in DOMAIN lines :
          (lines[i].price_unit = 0 \/ lines[i].purchase_price = 0) =>
              /\ lines[i].markup_percentage = 0
              /\ lines[i].markup_amount = 0
              /\ lines[i].commission_factor = 0
              /\ lines[i].commission_amount = 0
    /\ \A p \in PriceInputs : \A c \in CostInputs : \A q \in QtyInputs :
          (p = 0 \/ c = 0) =>
              \A o \in RecomputeLine(NewLine(p, c, q), factors,
                                     {"price_unit", "purchase_price"}) :
                  o.raised = "none"

\* a priced line without a cost beside a line without a price, both with a
\* quantity, under a table with active entries
C11_Witness ==
    /\ Len(lines) = 2
    /\ lines[1].price_unit = 100 /\ lines[1].purchase_price = 0
    /\ lines[1].product_uom_qty = 2
    /\ lines[2].price_unit = 0 /\ lines[2].purchase_price = 80
    /\ lines[2].product_uom_qty = -1
    /\ HasActiveEntry(20, 10000)

C14_FactorLookedUpUnlessZeroMarkup ==
    \A i \in DOMAIN lines :
        IF lines[i].markup_percentage # 0
        THEN \E r \in GetCommissionFactor(factors, 10 * lines[i].markup_percentage) :
                /\ r.raised = "none"
                /\ r.value = lines[i].commission_factor
        ELSE lines[i].commission_factor = 0

\* under an active entry for 0%: a line of markup 0 with factor 0 beside a
\* line of markup 73 that the table clamps to the 0% entry's factor
C14_Witness ==
    /\ HasActiveEntry(0, 4000)
    /\ Len(lines) = 2
    /\ lines[1].price_unit = 300 /\ lines[1].purchase_price = 299
    /\ lines[1].product_uom_qty = 2
    /\ lines[1].markup_percentage = 0 /\ lines[1].commission_factor = 0
    /\ lines[2].markup_percentage = 73 /\ lines[2].commission_factor = 4000

\* C15: a line's commission_amount is price_subtotal * commission_factor when
\* both are non-zero and 0 otherwise, the subtotal being unit price * quantity.
C15_LineCommissionAmount ==
    \A i \in DOMAIN lines :
        LET subtotal == lines[i].price_unit * lines[i].product_uom_qty
        IN  /\ lines[i].price_subtotal = subtotal
            /\ lines[i].commission_amount =
                  IF subtotal # 0 /\ lines[i].commission_factor # 0
                  THEN subtotal * lines[i].commission_factor
                  ELSE 0

\* price 100, cost 80, quantity 2 under an active entry 20% -> 0.010: 2.0
C15_Witness ==
    /\ HasActiveEntry(20, 10000)
    /\ \E i \in DOMAIN lines :
          /\ lines[i].price_unit = 100 /\ lines[i].purchase_price = 80
          /\ lines[i].product_uom_qty = 2
          /\ lines[i].commission_factor = 10000
          /\ lines[i].commission_amount = 2 * FactorUnit

\* C16: the order's total_cost_amount is the sum over its lines of unit cost
\* * quantity, where a line with absent or zero cost or zero quantity adds 0
\* whatever its unit price; an order with no lines has total cost 0.
C16_TotalCostIsSumOfLineCosts ==
    /\ order.total_cost_amount =
          Sum([i \in DOMAIN lines |->
                  lines[i].purchase_price * lines[i].product_uom_qty])
    /\ Len(lines) = 0 => order.total_cost_amount = 0

\* a priced line without cost beside cost 80 at quantity 2: total cost 160
C16_Witness ==
    /\ Len(lines) = 2
    /\ lines[1].price_unit = 300 /\ lines[1].purchase_price = 0
    /\ lines[1].product_uom_qty = 2
    /\ lines[2].purchase_price = 80 /\ lines[2].product_uom_qty = 2
    /\ order.total_cost_amount = 160

\* C17: the order's total_markup_percentage is an integer nearest to
\* ((total_cost_amount / amount_untaxed) - 1) * -100 when both totals are
\* non-zero and 0 when either is zero; it comes from the order totals, not from
\* an average of the lines' percentages.
C17_TotalMarkupFromTotals ==
    /\ order.amount_untaxed =
          Sum([i \in DOMAIN lines |-> lines[i].price_unit * lines[i].product_uom_qty])
    /\ IF order.amount_untaxed # 0 /\ order.total_cost_amount # 0
       THEN IsNearestInteger(order.total_markup_percentage,
                             100 * (order.amount_untaxed - order.total_cost_amount),
                             order.amount_untaxed)
       ELSE order.total_markup_percentage = 0

\* lines of 20% (200 over 160) and 73% (600 over 160): the totals 800 over 320
\* give 60, where the lines' percentages average 46.5
C17_Witness ==
    /\ Len(lines) = 2
    /\ lines[1].markup_percentage = 20 /\ lines[2].markup_percentage = 73
    /\ order.amount_untaxed = 800 /\ order.total_cost_amount = 320
    /\ order.total_markup_percentage = 60

\* the sums over the lines whose subtotal and commission_factor are non-zero
WeightedFactorSum ==
    Sum([i \in DOMAIN lines |->
            IF lines[i].price_subtotal # 0 /\ lines[i].commission_factor # 0
            THEN lines[i].price_subtotal * lines[i].commission_factor
            ELSE 0])

QualifyingSubtotalSum ==
    Sum([i \in DOMAIN lines |->
            IF lines[i].price_subtotal # 0 /\ lines[i].commission_factor # 0
            THEN lines[i].price_subtotal
            ELSE 0])

\* C18: the order's total_commission_factor is sum(subtotal * factor) /
\* sum(subtotal) over exactly the lines whose subtotal and commission_factor
\* are both non-zero, and 0 only when that denominator is zero or no line
\* qualifies, negative subtotals and an amount_untaxed of 0 included.
C18_WeightedAverageFactor ==
    order.total_commission_factor =
        IF QualifyingSubtotalSum # 0
        THEN Fraction(WeightedFactorSum, QualifyingSubtotalSum)
        ELSE Zero

\* C19: the order's total_commission_amount is amount_untaxed *
\* total_commission_factor when both are non-zero and 0 otherwise; it is 0 for
\* an order with no lines and for an order whose only line has zero markup.
C19_TotalCommissionAmount ==
    /\ order.total_commission_amount =
          IF order.amount_untaxed # 0 /\ order.total_commission_factor # Zero
          THEN Fraction(order.amount_untaxed * order.total_commission_factor.num,
                        order.total_commission_factor.den)
          ELSE Zero
    /\ Len(lines) = 0 => order.total_commission_amount = Zero
    /\ (Len(lines) = 1 /\ lines[1].markup_percentage = 0) =>
          order.total_commission_amount = Zero

\* lines of subtotal 200 at factor 0.010 and subtotal 600 at factor 0.004:
\* factor 0.0055 and total commission 800 * 0.0055 = 4.4
C19_Witness ==
    /\ Len(lines) = 2
    /\ lines[1].price_subtotal = 200 /\ lines[1].commission_factor = 10000
    /\ lines[2].price_subtotal = 600 /\ lines[2].commission_factor = 4000
    /\ order.amount_untaxed = 800
    /\ order.total_commission_factor = Fraction(5500, 1)
    /\ order.total_commission_amount = Fraction(4400000, 1)

\* C20: the order's total_commission_amount is the sum of its lines'
\* commission_amount values, orders with a line of zero commission factor
\* included.  Stated for the orders without a negative quantity, whose
\* total_commission_factor is the weighted average of the qualifying lines.
C20_TotalCommissionIsSumOfLines ==
    (\A i \in DOMAIN lines : lines[i].product_uom_qty >= 0) =>
        order.total_commission_amount =
            Fraction(Sum([i \in DOMAIN lines |-> lines[i].commission_amount]), 1)

\* C23: after any sequence of line additions, line removals and edits of a
\* line's unit price, unit cost or quantity, the order's stored amount_untaxed,
\* total_cost_amount, total_markup_amount, total_markup_percentage,
\* total_commission_factor and total_commission_amount are what recomputing
\* all of them from the complete current set of lines gives.
C23_TotalsMatchFullRecomputation == order \in ComputeOrder(lines)

\* two lines left after edits, with every total of the order non-zero
C23_Witness ==
    /\ Len(lines) = 2
    /\ lines[1].product_uom_qty = -1 /\ lines[2].product_uom_qty = 2
    /\ order.amount_untaxed = 500 /\ order.total_cost_amount = 80
    /\ order.total_markup_percentage = 84
    /\ order.total_commission_factor # Zero
    /\ order.total_commission_amount # Zero

\* C30: a line with non-zero unit price and a unit cost above that price, whose
\* rounded markup is negative, under a table with an active entry, has the
\* commission_factor of an active entry with the smallest markup_percentage,
\* and so a non-zero commission_amount whenever that factor and the line's
\* subtotal are non-zero; such a line has factor 0 only when its markup rounds
\* to 0 or the smallest entry's factor is 0.
C30_NegativeMarkupTakesSmallestEntry ==
    \A i \in DOMAIN lines :
        (/\ lines[i].price_unit # 0
         /\ lines[i].purchase_price > lines[i].price_unit
         /\ ActiveIds # {}) =>
            IF lines[i].markup_percentage < 0
            THEN /\ \E k \in ActiveIds :
                        /\ factors[k].markup_percentage = MinPercentage
                        /\ factors[k].commission_factor = lines[i].commission_factor
                 /\ (lines[i].commission_factor # 0 /\ lines[i].price_subtotal # 0) =>
                        lines[i].commission_amount # 0
            ELSE lines[i].markup_percentage = 0 /\ lines[i].commission_factor = 0

\* price 100 under cost 299 (markup -199) at quantity 2, with smallest active
\* entry 20% -> 0.010: factor 0.010 and commission 2.0
C30_Witness ==
    /\ HasActiveEntry(67, 4000)
    /\ HasActiveEntry(20, 10000)
    /\ \E i \in DOMAIN lines :
          /\ lines[i].price_unit = 100 /\ lines[i].purchase_price = 299
          /\ lines[i].product_uom_qty = 2
          /\ lines[i].markup_percentage = -199
          /\ lines[i].commission_factor = 10000
          /\ lines[i].commission_amount = 2 * FactorUnit

(***************************************************************************)
(* The vendor reference and the commission payment status.                 *)
(***************************************************************************)
IsLineWrite == last.op = "line.write"

WritesVendor == "product_vendor_id" \in DOMAIN last.vals

Editable(order_id) == state[order_id] \in {"draft", "sent"}

C21_Step ==
    (/\ last'.op = "line.write"
     /\ "product_vendor_id" \in DOMAIN last'.vals
     /\ Cardinality(last'.id) = 1) =>
        \A i \in last'.id :
            IF state[lines[i].order_id] \in {"draft", "sent"}
            THEN /\ last'.raised = "none"
                 /\ lines'[i].product_vendor_id = last'.vals.product_vendor_id
            ELSE /\ last'.raised = "ValidationError"
                 /\ lines'[i] = lines[i]

\* C21: a write containing product_vendor_id on a line whose order is in a
\* state other than draft or sent fails with a validation error and leaves the
\* line as it was; on a line whose order is in draft or sent it succeeds and
\* stores the vendor.
C21_VendorWriteGuard == [][C21_Step]_vars

\* a line of a confirmed order still without vendor after a refused write
C21_Witness ==
    /\ IsLineWrite /\ WritesVendor
    /\ last.raised = "ValidationError"
    /\ \E i \in DOMAIN lines :
          /\ last.id = {i}
          /\ state[lines[i].order_id] = "sale"
          /\ lines[i].product_vendor_id = 0

\* C22: the guard follows the order's state at the moment of each write: every
\* line's can_edit_product_vendor is whether its order is now in draft or
\* sent, and a vendor write has been accepted exactly when every targeted
\* line's order is in draft or sent, whatever states the order went through.
C22_GuardFollowsCurrentState ==
    /\ \A i \in DOMAIN lines :
          lines[i].can_edit_product_vendor = Editable(lines[i].order_id)
    /\ (IsLineWrite /\ WritesVendor) =>
          (last.raised = "none" <=> \A i \in last.id : Editable(lines[i].order_id))

\* a vendor written on a line of an order that is in sent, beside a line of
\* the other order, cancelled, that kept no vendor
C22_Witness ==
    /\ IsLineWrite /\ WritesVendor /\ last.raised = "none"
    /\ Len(lines) = 2
    /\ last.id = {1}
    /\ lines[1].order_id = 1 /\ state[1] = "sent" /\ lines[1].product_vendor_id = 1
    /\ lines[2].order_id = 2 /\ state[2] = "cancel" /\ lines[2].product_vendor_id = 0

OtherStatus(status) == IF status = "pending" THEN "paid" ELSE "pending"

C27_Step ==
    /\ (last'.op = "line.create" /\ last'.raised = "none") =>
          lines'[Len(lines')].commission_payment_status = "pending"
    /\ last'.op = "toggle_commission_payment_status" =>
          /\ last'.raised = "none"
          /\ DOMAIN lines' = DOMAIN lines
          /\ \A i \in DOMAIN lines :
                lines'[i] =
                    IF i \in last'.id
                    THEN [lines[i] EXCEPT
                            !.commission_payment_status =
                                OtherStatus(lines[i].commission_payment_status)]
                    ELSE lines[i]
          /\ order' = order
          /\ state' = state
    /\ \A i \in DOMAIN lines' :
          lines'[i].commission_payment_status \in {"pending", "paid"}

\* C27: a line's commission_payment_status starts as pending and is always
\* pending or paid; toggle_commission_payment_status gives each line of the
\* recordset the other status than the one it had, so a second toggle restores
\* it; the toggle is accepted in every order state and changes no other field
\* of any line, nor the order's totals.
C27_ToggleFlipsEachLine == [][C27_Step]_vars

\* lines 1 and 2 toggled together from (pending, paid) to (paid, pending),
\* line 1 on a confirmed order and holding a vendor
C27_Witness ==
    /\ last.op = "toggle_commission_payment_status"
    /\ last.id = {1, 2}
    /\ lines[1].commission_payment_status = "paid"
    /\ lines[2].commission_payment_status = "pending"
    /\ state[lines[1].order_id] = "sale"
    /\ lines[1].product_vendor_id = 1
    /\ lines[1].commission_amount = 2 * FactorUnit

C29_Step ==
    last'.op = "line.write" =>
        IF /\ "product_vendor_id" \in DOMAIN last'.vals
           /\ \E i \in last'.id : state[lines[i].order_id] \notin {"draft", "sent"}
        THEN /\ last'.raised = "ValidationError"
             /\ lines' = lines
             /\ order' = order
        ELSE /\ last'.raised = "none"
             /\ \A i \in last'.id : \A k \in DOMAIN last'.vals :
                    lines'[i][k] = last'.vals[k]

\* C29: a write containing product_vendor_id on several lines is all or
\* nothing: when a targeted line's order is not in draft or sent it raises a
\* validation error and no line changes, in the vendor or in any other field
\* of the write; otherwise every targeted line takes the values.  A write
\* without product_vendor_id is accepted in every order state.
C29_VendorWriteAllOrNothing == [][C29_Step]_vars

\* a write of vendor and payment status on lines 1 and 2 refused because line
\* 2's order is confirmed: line 1, on a draft order, kept no vendor and pending
C29_Witness ==
    /\ IsLineWrite /\ last.raised = "ValidationError"
    /\ last.id = {1, 2}
    /\ last.vals = [product_vendor_id |-> 1, commission_payment_status |-> "paid"]
    /\ state[lines[1].order_id] = "draft"
    /\ state[lines[2].order_id] = "sale"
    /\ lines[1].product_vendor_id = 0
    /\ lines[1].commission_payment_status = "pending"

\* the names of the '[VM] ...' section lines of the quotation, in order
SectionNames ==
    LET secs == SelectSeq(order_line, LAMBDA l : l.display_type = "line_section")
    IN  [i \in DOMAIN secs |-> secs[i].name]

IsApply == last.op = "action_apply" /\ last.raised = "none"

\* C24: after any sequence of action_apply invocations on an order,
\* interleaved with deletions of section lines, the names of the order's
\* '[VM] ...' section lines are pairwise distinct
C24_SectionNamesDistinct ==
    \A i, k \in DOMAIN SectionNames : i # k => SectionNames[i] # SectionNames[k]

\* what suggest_flavor is to return: nothing for a zero, the numbered row of
\* the table, else the first rule that matches
TableRows ==
    {<<"small1", 1, 2>>, <<"small2", 1, 4>>, <<"small3", 2, 4>>,
     <<"medium1", 2, 6>>, <<"medium2", 2, 8>>, <<"medium3", 4, 8>>,
     <<"medium4", 4, 12>>, <<"large1", 4, 16>>, <<"large2", 6, 12>>,
     <<"large3", 6, 16>>, <<"large4", 8, 16>>, <<"large5", 8, 24>>}

ExpectedFlavors(vcpus, ram_gb) ==
    IF vcpus = 0 \/ ram_gb = 0 THEN {""}
    ELSE IF \E row \in TableRows : row[2] = vcpus /\ row[3] = ram_gb
    THEN {"ncs.g-" \o row[1] : row \in {t \in TableRows : t[2] = vcpus /\ t[3] = ram_gb}}
    ELSE CASE vcpus <= 2 /\ ram_gb <= 4 -> {"ncs.g-small.cus"}
           [] vcpus <= 6 /\ ram_gb <= 8 /\ ~(vcpus <= 2 /\ ram_gb <= 4) -> {"ncs.g-medium.cus"}
           [] vcpus <= 8 /\ ram_gb <= 24 /\ ~(vcpus <= 6 /\ ram_gb <= 8) -> {"ncs.g-large.cus"}
           [] OTHER -> {"ncs.g-xlarge"}

\* C26: the flavor shown after an onchange, and the section name written by
\* action_apply on an empty quotation, are the flavor laid down for the
\* wizard's vcpus and ram_gb: empty for a zero, the numbered table row, else
\* the first matching un-numbered rule; action_apply does not use the
\* flavor shown
C26_FlavorSuggestedAndApplied ==
    /\ last.op = "_onchange_flavor" =>
           wizard.flavor \in ExpectedFlavors(wizard.vcpus, wizard.ram_gb)
    /\ (IsApply /\ Len(SectionNames) = 1) =>
           \E f \in ExpectedFlavors(wizard.vcpus, wizard.ram_gb) :
               SectionNames[1] = "[VM] " \o f

\* a section was named from the server-side flavor while the wizard showed
\* another one
C26_Witness ==
    /\ IsApply
    /\ Len(SectionNames) = 1
    /\ SectionNames[1] = "[VM] ncs.g-medium.cus"
    /\ wizard.flavor = "ncs.g-small3"

\* the paths from the root to every node of a menu tree, in the order of
\* the tree, for each form in which the host hands it over
RECURSIVE NestedPaths(_, _)
NestedPaths(kids, above) ==
    IF kids = << >>
    THEN << >>
    ELSE << Append(above, Head(kids).id) >>
             \o NestedPaths(Head(kids).children, Append(above, Head(kids).id))
             \o NestedPaths(Tail(kids), above)

RECURSIVE ByIdPaths(_, _, _)
ByIdPaths(items, ids, above) ==
    IF ids = << >>
    THEN << >>
    ELSE << Append(above, Head(ids)) >>
             \o (IF Head(ids) \in DOMAIN items
                 THEN ByIdPaths(items, items[Head(ids)].children, Append(above, Head(ids)))
                 ELSE << >>)
             \o ByIdPaths(items, Tail(ids), above)

MenuPaths(tree) ==
    IF tree.type = "list" THEN NestedPaths(tree.items, << >>)
    ELSE IF "children" \in DOMAIN tree THEN NestedPaths(tree.children, << >>)
    ELSE ByIdPaths(tree.items, tree.root.children, << >>)

ModuleMenuIds ==
    {r.res_id : r \in {x \in env.imd : x.model = "ir.ui.menu"
                                        /\ x.module = "cloud_subscriptions_simplified"}}

ConfiguredName == IF env.param = "" THEN "Nubi2go" ELSE env.param

IsLoadMenus == last.op = "load_menus"

\* C25: with the company's name equal to the configured name load_menus
\* returns the host's tree unchanged; otherwise the returned tree holds,
\* in their original order, exactly the nodes of the host's tree that are
\* neither one of the module's menus nor below one
C25_MenusFilteredByCompany ==
    IsLoadMenus =>
        IF env.company = ConfiguredName
        THEN menus = env.menus
        ELSE MenuPaths(menus) =
                 SelectSeq(MenuPaths(env.menus),
                           LAMBDA p : \A i \in DOMAIN p : p[i] \notin ModuleMenuIds)

IsTableChange == last.op \in {"create", "write"} /\ last.raised = "none"

CommissionFields(ls) ==
    [i \in DOMAIN ls |-> <<ls[i].commission_factor, ls[i].commission_amount>>]

\* C28: a create or write on the factor table leaves the stored
\* commission_factor and commission_amount of every line and the stored
\* commission totals of the order as they were; a stored commission_factor
\* changes only in an operation on the line itself, and not in one that
\* edits the quantity
C28_Step ==
    /\ IsTableChange' =>
           /\ CommissionFields(lines') = CommissionFields(lines)
           /\ order'.total_commission_factor = order.total_commission_factor
           /\ order'.total_commission_amount = order.total_commission_amount
    /\ \A i \in DOMAIN lines :
           lines'[i].commission_factor # lines[i].commission_factor =>
               /\ last'.op = "sale.order.line"
               /\ lines'[i].product_uom_qty = lines[i].product_uom_qty

====
